---- MODULE Spec2Model ----
(***************************************************************************)
(* Model of the specification-hours converter: the per-file ingestion and  *)
(* validation loop, the duplicate-project guard, the processing log, and  *)
(* the merge / filter / coerce / group / pivot aggregation.                *)
(*                                                                         *)
(* Two implementations live in the repository and both are modelled:      *)
(*   "functions" : process_uploaded_file / Aggregate_hours_by_bewaking     *)
(*                 (src/refactor.py, version 2.11)                         *)
(*   "classes"   : FileProcessor.process_file / DataTransformer.transform  *)
(*                 (src/streamlit_app.py, version 2.0)                     *)
(*                                                                         *)
(* Text is modelled as a sequence of tokens (a token is an indivisible    *)
(* piece of text), so that prefix tests, substring tests and replacement  *)
(* are computed rather than assumed.  Hours are integers counted in       *)
(* tenths of an hour.                                                     *)
(***************************************************************************)
EXTENDS Integers, Sequences, FiniteSets, TLC

\* Largest number of files uploaded in one run.
MaxFiles == 2

----------------------------------------------------------------------------
\* Configuration constants

PROJECT_PREFIX == "SPECIFICATIE UREN van project: "
COL_DESCRIPTION == <<"Omschrijving">>
COL_SPECIFICATION == <<"specificatiecode">>
COL_PROJECT == <<"project">>
COL_PROJECT_CODE == <<"projectcode">>
COL_MONITORING_CODE == <<"bewakingscode">>
COL_MONITORING_DESC == <<"bewakingomschrijving">>

\* Absent value of the translation table (Python None).
None == "<None>"

\* Faulty variant: code K601 carries two descriptions (035FRE has its own).
TRANSLATION_TABLE_OwnDescriptionForFrezen ==
  << [specificatiecode |-> "020CAL", Omschrijving |-> "Afkorten en calibreren", bewakingscode |-> "K601", bewakingomschrijving |-> "Machinale"],
     [specificatiecode |-> "035FRE", Omschrijving |-> "Frezen", bewakingscode |-> "K601", bewakingomschrijving |-> "Frezen"],
     [specificatiecode |-> "040CON", Omschrijving |-> "Conturex", bewakingscode |-> "K602", bewakingomschrijving |-> "Conturex"],
     [specificatiecode |-> "050BIE", Omschrijving |-> "Biesse", bewakingscode |-> "K608", bewakingomschrijving |-> "Biesse en Select"],
     [specificatiecode |-> "055ORD", Omschrijving |-> "Opsluite ramen/deuren", bewakingscode |-> "K603", bewakingomschrijving |-> "Opsluiten, Voormontage, Afkort/profiel/contr lat"],
     [specificatiecode |-> "060SEL", Omschrijving |-> "Select", bewakingscode |-> "K608", bewakingomschrijving |-> "Biesse en Select"],
     [specificatiecode |-> "070LAT", Omschrijving |-> "Afkort/ProfielContr Lat", bewakingscode |-> "K603", bewakingomschrijving |-> "Opsluiten, Voormontage, Afkort/profiel/contr lat"],
     [specificatiecode |-> "080OPK", Omschrijving |-> "opsluiten kozijnen", bewakingscode |-> "K603", bewakingomschrijving |-> "Opsluiten, Voormontage, Afkort/profiel/contr lat"],
     [specificatiecode |-> "090SPU", Omschrijving |-> "Spuiten", bewakingscode |-> "K604", bewakingomschrijving |-> "Spuiten"],
     [specificatiecode |-> "100AFM", Omschrijving |-> "Afmontage", bewakingscode |-> "K605", bewakingomschrijving |-> "Afmontage"],
     [specificatiecode |-> "110GLZ", Omschrijving |-> "Glaszetten (extern)", bewakingscode |-> None,   bewakingomschrijving |-> None],
     [specificatiecode |-> "AFM",    Omschrijving |-> "afmonteren", bewakingscode |-> "K605", bewakingomschrijving |-> "Afmontage"],
     [specificatiecode |-> "085VMO", Omschrijving |-> "Voormontage/glaslatten", bewakingscode |-> "K603", bewakingomschrijving |-> "Opsluiten, Voormontage, Afkort/profiel/contr lat"] >>

TRANSLATION_TABLE ==
  << [specificatiecode |-> "020CAL", Omschrijving |-> "Afkorten en calibreren", bewakingscode |-> "K601", bewakingomschrijving |-> "Machinale"],
     [specificatiecode |-> "035FRE", Omschrijving |-> "Frezen", bewakingscode |-> "K601", bewakingomschrijving |-> "Machinale"],
     [specificatiecode |-> "040CON", Omschrijving |-> "Conturex", bewakingscode |-> "K602", bewakingomschrijving |-> "Conturex"],
     [specificatiecode |-> "050BIE", Omschrijving |-> "Biesse", bewakingscode |-> "K608", bewakingomschrijving |-> "Biesse en Select"],
     [specificatiecode |-> "055ORD", Omschrijving |-> "Opsluite ramen/deuren", bewakingscode |-> "K603", bewakingomschrijving |-> "Opsluiten, Voormontage, Afkort/profiel/contr lat"],
     [specificatiecode |-> "060SEL", Omschrijving |-> "Select", bewakingscode |-> "K608", bewakingomschrijving |-> "Biesse en Select"],
     [specificatiecode |-> "070LAT", Omschrijving |-> "Afkort/ProfielContr Lat", bewakingscode |-> "K603", bewakingomschrijving |-> "Opsluiten, Voormontage, Afkort/profiel/contr lat"],
     [specificatiecode |-> "080OPK", Omschrijving |-> "opsluiten kozijnen", bewakingscode |-> "K603", bewakingomschrijving |-> "Opsluiten, Voormontage, Afkort/profiel/contr lat"],
     [specificatiecode |-> "090SPU", Omschrijving |-> "Spuiten", bewakingscode |-> "K604", bewakingomschrijving |-> "Spuiten"],
     [specificatiecode |-> "100AFM", Omschrijving |-> "Afmontage", bewakingscode |-> "K605", bewakingomschrijving |-> "Afmontage"],
     [specificatiecode |-> "110GLZ", Omschrijving |-> "Glaszetten (extern)", bewakingscode |-> None,   bewakingomschrijving |-> None],
     [specificatiecode |-> "AFM",    Omschrijving |-> "afmonteren", bewakingscode |-> "K605", bewakingomschrijving |-> "Afmontage"],
     [specificatiecode |-> "085VMO", Omschrijving |-> "Voormontage/glaslatten", bewakingscode |-> "K603", bewakingomschrijving |-> "Opsluiten, Voormontage, Afkort/profiel/contr lat"] >>

----------------------------------------------------------------------------
\* Generic helpers on sequences

Range(s) == { s[k] : k \in DOMAIN s }

RECURSIVE SumSeq(_)
SumSeq(s) == IF s = <<>> THEN 0 ELSE Head(s) + SumSeq(Tail(s))

RECURSIVE FlattenSeq(_)
FlattenSeq(ss) == IF ss = <<>> THEN <<>> ELSE Head(ss) \o FlattenSeq(Tail(ss))

\* Order-preserving removal of repeated elements (first occurrence kept).
RECURSIVE Dedup(_)
Dedup(s) ==
  IF s = <<>> THEN <<>>
  ELSE LET init == Dedup(SubSeq(s, 1, Len(s) - 1))
           last == s[Len(s)]
       IN  IF last \in Range(init) THEN init ELSE Append(init, last)

\* Index of the first element of s satisfying Test, 0 when there is none.
FirstIndex(s, Test(_)) ==
  IF \E k \in DOMAIN s : Test(s[k])
  THEN CHOOSE k \in DOMAIN s : Test(s[k]) /\ \A j \in 1..(k - 1) : ~Test(s[j])
  ELSE 0

----------------------------------------------------------------------------
\* Cells of a table: a number, a text, or NaN (missing)

NaN == [kind |-> "nan", num |-> 0, txt |-> <<>>]
Num(n) == [kind |-> "num", num |-> n, txt |-> <<>>]
Txt(s) == [kind |-> "str", num |-> 0, txt |-> s]

notna(c) == c.kind # "nan"

\* Raw field texts that the CSV parser reads as a number under the
\* decimal-comma convention, with the value in tenths of an hour.
DecimalCommaValue ==
  [t \in {"1", "3", "2,5"} |-> CASE t = "1" -> 10 [] t = "3" -> 30 [] t = "2,5" -> 25]

\* Texts that pd.to_numeric accepts (decimal point convention only).
ToNumericValue ==
  [t \in {"1", "3"} |-> CASE t = "1" -> 10 [] t = "3" -> 30]

----------------------------------------------------------------------------
\* Uploaded files
\*
\* An uploaded file is its name, its first line (tokens), the column header
\* row (line 4) and the data rows (lines 5+) as raw field texts, plus the
\* fault its bytes carry: "decode" (a byte cp1252 and utf-8 cannot decode),
\* "parse" (the parser rejects the bytes whatever the encoding) or "none".

U0 == <<"Unnamed: 0">>
Uren == <<"Uren">>
TotaalUren == <<"Totaal ", "Uren">>

MkFile(name, fault, line1, columns, rows) ==
  [name |-> name, fault |-> fault, line1 |-> line1, columns |-> columns,
   body |-> [r \in DOMAIN rows |->
               SubSeq(<<rows[r][1], "tekst", rows[r][2]>>, 1, Len(columns))]]

ColsStd == <<U0, COL_DESCRIPTION, Uren>>
ColsTotaal == <<U0, COL_DESCRIPTION, TotaalUren>>
ColsBadSecond == <<U0, <<"Naam">>, Uren>>
ColsOne == <<U0>>
ColsNoHours == <<U0, COL_DESCRIPTION, <<"Minuten">> >>
ColsSkipped == <<U0, <<"Kolom ", "overgeslagen">>, Uren>>

LineA == <<PROJECT_PREFIX, "A", ";">>
LineAbare == <<PROJECT_PREFIX, "A">>
LineB == <<PROJECT_PREFIX, "B", ";">>
LineC == <<PROJECT_PREFIX, "C", ";">>
LineD == <<PROJECT_PREFIX, "D", ";">>
LineNoPrefix == <<"A", ";">>
LineOnlyPrefix == <<PROJECT_PREFIX, ";">>
LineBarePrefix == <<PROJECT_PREFIX>>

Files ==
  { MkFile("a1.csv", "none", LineA, ColsStd, << <<"020CAL", "3">>, <<"035FRE", "2,5">> >>),
    MkFile("a2.csv", "none", LineA, ColsStd, << <<"040CON", "1">>, <<"110GLZ", "3">> >>),
    MkFile("a3.csv", "none", LineAbare, ColsStd, << <<"020CAL", "1">> >>),
    MkFile("b1.csv", "none", LineB, ColsStd, << <<"040CON", "1">>, <<"040CON", "">>, <<"999XXX", "3">> >>),
    MkFile("b2.csv", "none", LineB, ColsTotaal, << <<"020CAL", "3">>, <<"090SPU", "1">> >>),
    MkFile("c1.csv", "none", LineC, ColsStd, << <<"999XXX", "3">>, <<"110GLZ", "1">> >>),
    MkFile("c2.csv", "none", LineC, ColsStd, << <<"020CAL", "abc">>, <<"020CAL", "2,5">>, <<"040CON", "3">> >>),
    MkFile("noprefix.csv", "none", LineNoPrefix, ColsStd, << <<"020CAL", "3">> >>),
    MkFile("onlyprefix.csv", "none", LineOnlyPrefix, ColsStd, << <<"020CAL", "3">> >>),
    MkFile("bareprefix.csv", "none", LineBarePrefix, ColsStd, << <<"020CAL", "3">> >>),
    MkFile("skipped.csv", "none", LineA, ColsSkipped, << <<"020CAL", "3">> >>),
    MkFile("numcodes.csv", "none", LineD, ColsStd, << <<"1", "3">>, <<"3", "1">> >>),
    MkFile("badsecond.csv", "none", LineA, ColsBadSecond, << <<"020CAL", "3">> >>),
    MkFile("badboth.csv", "none", LineNoPrefix, ColsBadSecond, << <<"020CAL", "3">> >>),
    MkFile("onecol.csv", "none", LineA, ColsOne, << <<"020CAL", "3">> >>),
    MkFile("norows.csv", "none", LineA, ColsStd, << >>),
    MkFile("nohours.csv", "none", LineB, ColsNoHours, << <<"020CAL", "3">> >>),
    MkFile("decode.csv", "decode", LineB, ColsStd, << <<"040CON", "3">> >>),
    MkFile("parse.csv", "parse", LineA, ColsStd, << <<"020CAL", "3">> >>) }

----------------------------------------------------------------------------
\* Tables (data frames): an ordered list of column names and an ordered list
\* of rows, each row a function from the column names to cells.

NoData == [columns |-> <<>>, rows |-> <<>>]

Empty(data) == Len(data.columns) = 0 \/ Len(data.rows) = 0

\* pandas.read_csv(sep=';', decimal=',', skiprows=3): a column all of whose
\* fields are numeric or empty becomes a numeric column (empty = NaN); any
\* other column keeps its fields as text (empty = NaN).
pd_read_csv(f) ==
  LET numeric(j) == \A r \in DOMAIN f.body :
                       f.body[r][j] = "" \/ f.body[r][j] \in DOMAIN DecimalCommaValue
      cell(r, j) == IF f.body[r][j] = "" THEN NaN
                    ELSE IF numeric(j) THEN Num(DecimalCommaValue[f.body[r][j]])
                    ELSE Txt(<<f.body[r][j]>>)
      idx(c) == CHOOSE j \in DOMAIN f.columns : f.columns[j] = c
  IN  [columns |-> f.columns,
       rows |-> [r \in DOMAIN f.body |-> [c \in Range(f.columns) |-> cell(r, idx(c))]]]

\* data[col] = value: the column is overwritten in place when it exists and
\* appended last otherwise.
SetColumn(data, col, value) ==
  [columns |-> IF col \in Range(data.columns) THEN data.columns
               ELSE Append(data.columns, col),
   rows |-> [r \in DOMAIN data.rows |->
               [c \in Range(data.columns) \cup {col} |->
                  IF c = col THEN value ELSE data.rows[r][c]]]]

\* data.rename(columns={old: new})
RenameColumn(data, old, new) ==
  LET ren(c) == IF c = old THEN new ELSE c
      back(c) == IF c = new THEN old ELSE c
  IN  [columns |-> [k \in DOMAIN data.columns |-> ren(data.columns[k])],
       rows |-> [r \in DOMAIN data.rows |->
                   [c \in { ren(d) : d \in Range(data.columns) } |-> data.rows[r][back(c)]]]]

\* data[[col] + [c for c in data.columns if c != col]]
MoveFirst(data, col) ==
  [columns |-> <<col>> \o SelectSeq(data.columns, LAMBDA c : c # col),
   rows |-> data.rows]

\* data.drop(columns=[col])
DropColumn(data, col) ==
  [columns |-> SelectSeq(data.columns, LAMBDA c : c # col),
   rows |-> [r \in DOMAIN data.rows |->
               [c \in Range(data.columns) \ {col} |-> data.rows[r][c]]]]

\* pd.concat(frames, ignore_index=True): the union of the columns in order of
\* first appearance, the rows in frame order, missing cells NaN.
pd_concat(frames) ==
  LET cols == Dedup(FlattenSeq([k \in DOMAIN frames |-> frames[k].columns]))
      widen(fr) == [r \in DOMAIN fr.rows |->
                      [c \in Range(cols) |->
                         IF c \in Range(fr.columns) THEN fr.rows[r][c] ELSE NaN]]
  IN  [columns |-> cols,
       rows |-> FlattenSeq([k \in DOMAIN frames |-> widen(frames[k])])]

----------------------------------------------------------------------------
\* Text operations on token sequences

\* s.replace(PROJECT_PREFIX, ''): every occurrence of the prefix is removed.
RemovePrefixText(s) == SelectSeq(s, LAMBDA t : t # PROJECT_PREFIX)

\* s.startswith(PROJECT_PREFIX)
StartsWithPrefix(s) == Len(s) > 0 /\ s[1] = PROJECT_PREFIX

\* 'needle' in s, for a one-token needle
Contains(s, needle) == \E k \in DOMAIN s : s[k] = needle

\* s.split(';')[0]: the text before the first semicolon (all of it without one)
BeforeSemicolon(s) ==
  LET k == FirstIndex(s, LAMBDA t : t = ";")
  IN  IF k = 0 THEN s ELSE SubSeq(s, 1, k - 1)

----------------------------------------------------------------------------
\* Implementation "functions" (src/refactor.py): reading and per-file checks

\* The single fixed encoding of this implementation.
ENCODING == "cp1252"

\* content.strip().split('\n')[0]: the whole first line, separators included.
extract_project_code_F(f) == f.line1

\* read_csv_file: pandas raises on a decode or parse fault (no fallback).
read_csv_file(f) ==
  IF f.fault # "none"
  THEN [raised |-> TRUE, data |-> NoData, project_code |-> <<>>]
  ELSE [raised |-> FALSE, data |-> pd_read_csv(f),
        project_code |-> extract_project_code_F(f)]

\* Faulty variant: the name of the second column is not compared.
validate_csv_format_AnyName(data) ==
  /\ ~Empty(data)
  /\ Len(data.columns) >= 2

validate_csv_format(data) ==
  /\ ~Empty(data)
  /\ Len(data.columns) >= 2
  /\ data.columns[2] = COL_DESCRIPTION

prepare_uploaded_data(data, project_code_clean) ==
  LET d1 == SetColumn(data, COL_PROJECT_CODE, Txt(project_code_clean))
      d2 == MoveFirst(d1, COL_PROJECT_CODE)
      first_col == d2.columns[2]
  IN  IF first_col # COL_SPECIFICATION
      THEN RenameColumn(d2, first_col, COL_SPECIFICATION)
      ELSE d2

\* Faulty variant: looks the raw identifier up in the set of clean ones.
AlreadyProcessedRaw(clean, processed) == (<<PROJECT_PREFIX>> \o clean) \in processed

\* project_code_clean in processed_projects
AlreadyProcessed(clean, processed) == clean \in processed

\* Log messages, as token sequences with the interpolated text in place.
MsgUnreadable == <<"Kon CSV niet lezen met ondersteunde encodings of bestand is leeg">>
MsgFormat(data) ==
  <<"Ongeldig formaat (tweede kolom is niet 'Omschrijving', gevonden: ">>
    \o (IF Len(data.columns) >= 2 THEN data.columns[2] ELSE <<"geen tweede kolom">>)
    \o <<")">>
MsgPrefix(raw) ==
  <<"Onverwachte waarde op A1. De gevonden waarde '">> \o raw
    \o <<"' betreft geen projectcode.">>
MsgDuplicate(clean) ==
  <<"Projectcode ">> \o clean \o <<" is al eerder verwerkt. Bestand wordt ", "overgeslagen", ".">>
MsgSuccess(code) == <<"Succesvol verwerkt (Project: ">> \o code \o <<")">>
MsgException == <<"Fout - ", "exception text">>

Failure(f, message) ==
  [success |-> FALSE, filename |-> f.name, message |-> message,
   data |-> NoData, project_code |-> <<>>]

\* process_uploaded_file: the result record and the (possibly grown) set of
\* processed projects.
process_uploaded_file(f, processed) ==
  LET rd == read_csv_file(f)
      data == rd.data
      project_code_raw == rd.project_code
      project_code_clean == RemovePrefixText(project_code_raw)
      keep(res) == [result |-> res, processed_projects |-> processed]
  IN  IF rd.raised THEN keep(Failure(f, MsgException))
      ELSE IF Empty(data) THEN keep(Failure(f, MsgUnreadable))
      ELSE IF ~validate_csv_format(data) THEN keep(Failure(f, MsgFormat(data)))
      ELSE IF ~StartsWithPrefix(project_code_raw)
           THEN keep(Failure(f, MsgPrefix(project_code_raw)))
      ELSE IF AlreadyProcessed(project_code_clean, processed)
           THEN keep(Failure(f, MsgDuplicate(project_code_clean)))
      ELSE [result |-> [success |-> TRUE, filename |-> f.name,
                        message |-> MsgSuccess(project_code_clean),
                        data |-> prepare_uploaded_data(data, project_code_clean),
                        project_code |-> project_code_raw],
            processed_projects |-> processed \cup {project_code_clean}]

----------------------------------------------------------------------------
\* Implementation "classes" (src/streamlit_app.py): reading and per-file checks

\* Faulty variant: utf-8 tried first.
ENCODINGS_Utf8First == <<"utf-8", "cp1252", "latin-1", "iso-8859-1">>

ENCODINGS == <<"cp1252", "latin-1", "iso-8859-1", "utf-8">>

\* Whether pd.read_csv raises for this file under this encoding: a parse
\* fault under every encoding, a decode fault under the encodings that have
\* undecodable bytes.
ReadRaises(f, encoding) ==
  \/ f.fault = "parse"
  \/ f.fault = "decode" /\ encoding \in {"cp1252", "utf-8"}

\* first_line.strip().split(';')[0] (or the whole line without a semicolon)
extract_project_code_C(f) ==
  IF Contains(f.line1, ";") THEN BeforeSemicolon(f.line1) ELSE f.line1

\* CSVProcessor.read_file: the first encoding, from position k on, under which
\* the file parses; "found" is FALSE when none does.
RECURSIVE read_file_from(_, _)
read_file_from(f, k) ==
  IF k > Len(ENCODINGS)
  THEN [found |-> FALSE, data |-> NoData, project_code |-> <<>>, encoding |-> None]
  ELSE IF ReadRaises(f, ENCODINGS[k]) THEN read_file_from(f, k + 1)
  ELSE [found |-> TRUE, data |-> pd_read_csv(f),
        project_code |-> extract_project_code_C(f), encoding |-> ENCODINGS[k]]

read_file(f) == read_file_from(f, 1)

validate_format(data) ==
  /\ ~Empty(data)
  /\ Len(data.columns) >= 2
  /\ data.columns[2] = COL_DESCRIPTION

\* FileProcessor.process_file
process_file(f, processed) ==
  LET rd == read_file(f)
      data == rd.data
      project_code_raw == rd.project_code
      project_code_clean == RemovePrefixText(project_code_raw)
      keep(res) == [result |-> res, processed_projects |-> processed]
  IN  IF ~rd.found \/ Empty(data) THEN keep(Failure(f, MsgUnreadable))
      ELSE IF ~validate_format(data) THEN keep(Failure(f, MsgFormat(data)))
      ELSE IF AlreadyProcessed(project_code_clean, processed)
           THEN keep(Failure(f, MsgDuplicate(project_code_clean)))
      ELSE [result |-> [success |-> TRUE, filename |-> f.name,
                        message |-> MsgSuccess(project_code_raw),
                        data |-> SetColumn(data, COL_PROJECT, Txt(project_code_raw)),
                        project_code |-> project_code_raw],
            processed_projects |-> processed \cup {project_code_clean}]

----------------------------------------------------------------------------
\* Aggregation: merge with the translation table, find the hours column,
\* filter, coerce, group, pivot

\* Faulty variant: an absent table value read as the text 'None'.
TableCell_NoneAsText(v) == Txt(<<v>>)

TableCell(v) == IF v = None THEN NaN ELSE Txt(<<v>>)

\* pd.merge(data, TRANSLATION_TABLE, on='specificatiecode', how='left'):
\* every left row once per matching table entry (once, with the table's
\* fields NaN, when none matches); a column name present on both sides gets
\* the suffixes _x (left) and _y (right).
pd_merge(data) ==
  LET right == <<COL_DESCRIPTION, COL_MONITORING_CODE, COL_MONITORING_DESC>>
      overlap == Range(data.columns) \cap Range(right)
      lname(c) == IF c \in overlap THEN c \o <<"_x">> ELSE c
      rname(c) == IF c \in overlap THEN c \o <<"_y">> ELSE c
      columns == [k \in DOMAIN data.columns |-> lname(data.columns[k])]
                   \o [k \in DOMAIN right |-> rname(right[k])]
      entry(e, c) == CASE c = COL_DESCRIPTION -> TableCell(e.Omschrijving)
                       [] c = COL_MONITORING_CODE -> TableCell(e.bewakingscode)
                       [] c = COL_MONITORING_DESC -> TableCell(e.bewakingomschrijving)
      matches(row) ==
        SelectSeq(TRANSLATION_TABLE,
                  LAMBDA e : row[COL_SPECIFICATION] = Txt(<<e.specificatiecode>>))
      joined(row, e, hit) ==
        [c \in Range(columns) |->
           IF \E d \in Range(data.columns) : lname(d) = c
           THEN row[CHOOSE d \in Range(data.columns) : lname(d) = c]
           ELSE IF hit
                THEN entry(e, CHOOSE d \in Range(right) : rname(d) = c)
                ELSE NaN]
      expand(row) ==
        LET m == matches(row)
        IN  IF m = <<>> THEN <<joined(row, TRANSLATION_TABLE[1], FALSE)>>
            ELSE [k \in DOMAIN m |-> joined(row, m[k], TRUE)]
  IN  [columns |-> columns,
       rows |-> FlattenSeq([r \in DOMAIN data.rows |-> expand(data.rows[r])])]

\* Faulty variant: without a column named after 'Uren' the last column is taken.
find_hours_column_LastAsFallback(data) ==
  LET k == FirstIndex(data.columns, LAMBDA c : Contains(c, "Uren"))
  IN  IF k = 0 THEN data.columns[Len(data.columns)] ELSE data.columns[k]

\* pd.merge raises ValueError when the key column of the left table is a
\* numeric column (every cell a number or NaN), the table's key being text;
\* a table without rows is merged without complaint.
merge_raises(data) ==
  /\ data.rows # <<>>
  /\ \A r \in DOMAIN data.rows : data.rows[r][COL_SPECIFICATION].kind # "str"

\* The first column whose name contains 'Uren'; <<>> stands for None.
find_hours_column(data) ==
  LET k == FirstIndex(data.columns, LAMBDA c : Contains(c, "Uren"))
  IN  IF k = 0 THEN <<>> ELSE data.columns[k]

\* pd.to_numeric(cell, errors='coerce'), then fillna(0)
to_numeric(c) ==
  CASE c.kind = "num" -> c
    [] c.kind = "str" ->
         IF Len(c.txt) = 1 /\ c.txt[1] \in DOMAIN ToNumericValue
         THEN Num(ToNumericValue[c.txt[1]]) ELSE NaN
    [] OTHER -> NaN

fillna0(c) == IF notna(c) THEN c.num ELSE 0

\* data[data['bewakingscode'].notna()]
filter_with_code(data) ==
  [columns |-> data.columns,
   rows |-> SelectSeq(data.rows, LAMBDA row : notna(row[COL_MONITORING_CODE]))]

\* Faulty variant: the first row of each group instead of the group's sum.
groupby_first(data, hours_col) ==
  LET keyed == SelectSeq(data.rows,
                 LAMBDA row : notna(row[COL_MONITORING_DESC]) /\ notna(row[COL_PROJECT_CODE]))
      keys == { <<keyed[r][COL_MONITORING_DESC].txt, keyed[r][COL_PROJECT_CODE].txt>> :
                  r \in DOMAIN keyed }
      group(k) == SelectSeq(keyed,
                    LAMBDA row : <<row[COL_MONITORING_DESC].txt, row[COL_PROJECT_CODE].txt>> = k)
  IN  [k \in keys |-> fillna0(to_numeric(group(k)[1][hours_col]))]

\* groupby([desc, project])[hours].sum(): one summed entry per key pair that
\* occurs; rows with a NaN key are left out of every group.
groupby_sum(data, hours_col) ==
  LET keyed == SelectSeq(data.rows,
                 LAMBDA row : notna(row[COL_MONITORING_DESC]) /\ notna(row[COL_PROJECT_CODE]))
      keys == { <<keyed[r][COL_MONITORING_DESC].txt, keyed[r][COL_PROJECT_CODE].txt>> :
                  r \in DOMAIN keyed }
      group(k) == SelectSeq(keyed,
                    LAMBDA row : <<row[COL_MONITORING_DESC].txt, row[COL_PROJECT_CODE].txt>> = k)
  IN  [k \in keys |->
         SumSeq([r \in DOMAIN group(k) |-> fillna0(to_numeric(group(k)[r][hours_col]))])]

\* The grouping of the stand-alone conversion script: by monitoring code
\* instead of monitoring description.
groupby_sum_by_code(data, hours_col) ==
  LET keyed == SelectSeq(data.rows,
                 LAMBDA row : notna(row[COL_MONITORING_CODE]) /\ notna(row[COL_PROJECT_CODE]))
      keys == { <<keyed[r][COL_MONITORING_CODE].txt, keyed[r][COL_PROJECT_CODE].txt>> :
                  r \in DOMAIN keyed }
      group(k) == SelectSeq(keyed,
                    LAMBDA row : <<row[COL_MONITORING_CODE].txt, row[COL_PROJECT_CODE].txt>> = k)
  IN  [k \in keys |->
         SumSeq([r \in DOMAIN group(k) |-> fillna0(to_numeric(group(k)[r][hours_col]))])]

\* Faulty variant: the grouped sums looked up with index and columns swapped.
pivot_table_swapped(grouped) ==
  LET index == { k[2] : k \in DOMAIN grouped }
      columns == { k[1] : k \in DOMAIN grouped }
  IN  [index |-> index, columns |-> columns,
       cell |-> [pc \in index \X columns |->
                   IF <<pc[1], pc[2]>> \in DOMAIN grouped
                   THEN grouped[<<pc[1], pc[2]>>] ELSE 0]]

\* pivot_table(index=project, columns=desc, aggfunc='sum', fill_value=0)
pivot_table(grouped) ==
  LET index == { k[2] : k \in DOMAIN grouped }
      columns == { k[1] : k \in DOMAIN grouped }
  IN  [index |-> index, columns |-> columns,
       cell |-> [pc \in index \X columns |->
                   IF <<pc[2], pc[1]>> \in DOMAIN grouped
                   THEN grouped[<<pc[2], pc[1]>>] ELSE 0]]

NoMatrix == [index |-> {}, columns |-> {}, cell |-> <<>>]

Raised == [raised |-> TRUE, matrix |-> NoMatrix]

\* filter, coerce, group and pivot of the merged data
aggregate_hours(data, hours_col) ==
  IF ~({COL_MONITORING_CODE, COL_MONITORING_DESC, COL_PROJECT_CODE} \subseteq Range(data.columns))
  THEN Raised
  ELSE [raised |-> FALSE,
        matrix |-> pivot_table(groupby_sum(filter_with_code(data), hours_col))]

\* Aggregate_hours_by_bewaking (implementation "functions")
Aggregate_hours_by_bewaking(combined_data) ==
  IF COL_SPECIFICATION \notin Range(combined_data.columns) THEN Raised
  ELSE IF merge_raises(combined_data) THEN Raised
  ELSE LET data == pd_merge(combined_data)
           hours_col == find_hours_column(data)
       IN  IF hours_col = <<>> THEN Raised
           ELSE aggregate_hours(data, hours_col)

\* The '_uren' suffix put on every monitoring-description column
add_uren_suffix(m) ==
  [index |-> m.index,
   columns |-> { c \o <<"_uren">> : c \in m.columns },
   cell |-> [pc \in m.index \X { c \o <<"_uren">> : c \in m.columns } |->
               m.cell[<<pc[1], SubSeq(pc[2], 1, Len(pc[2]) - 1)>>]]]

\* DataTransformer.transform, up to the merge: the project column moved
\* first, cleaned into 'projectcode' and dropped, the first column renamed.
transform_prepare(combined_data) ==
  LET d1 == MoveFirst(combined_data, COL_PROJECT)
      d2 == [columns |-> Append(d1.columns, COL_PROJECT_CODE),
             rows |-> [r \in DOMAIN d1.rows |->
                         [c \in Range(d1.columns) \cup {COL_PROJECT_CODE} |->
                            IF c = COL_PROJECT_CODE
                            THEN IF d1.rows[r][COL_PROJECT].kind = "str"
                                 THEN Txt(RemovePrefixText(d1.rows[r][COL_PROJECT].txt))
                                 ELSE NaN
                            ELSE d1.rows[r][c]]]]
      d3 == DropColumn(d2, COL_PROJECT)
      first_col == d3.columns[1]
  IN  IF first_col # COL_SPECIFICATION
      THEN RenameColumn(d3, first_col, COL_SPECIFICATION) ELSE d3

\* DataTransformer.transform (implementation "classes")
transform(combined_data) ==
  LET prepared == transform_prepare(combined_data)
      data == pd_merge(prepared)
      hours_col == find_hours_column(data)
  IN  IF merge_raises(prepared) THEN Raised
      ELSE IF hours_col = <<>> THEN Raised
      ELSE LET out == aggregate_hours(data, hours_col)
           IN  IF out.raised THEN out
               ELSE [raised |-> FALSE, matrix |-> add_uren_suffix(out.matrix)]

----------------------------------------------------------------------------
\* The processing log as shown to the user

\* The status shown for one log record: a failure counts as a warning when
\* its message contains 'overgeslagen', as an error otherwise.
status_of(result) ==
  IF result.success THEN "[OK]"
  ELSE IF ~Contains(result.message, "overgeslagen") THEN "[ERROR]"
  ELSE "[WAARSCHUWING]"

\* render_processing_log: one line per record, in log order.
render_processing_log(rs) ==
  [k \in DOMAIN rs |-> [status |-> status_of(rs[k]), filename |-> rs[k].filename]]

----------------------------------------------------------------------------
\* The run: main()

VARIABLES
  variant,             \* which implementation runs
  uploaded_files,      \* the batch, in upload order
  i,                   \* number of files the loop has handled
  results,             \* the processing log
  valid_data,          \* the tables of the admitted files
  processed_projects,  \* clean identifiers admitted so far
  phase,               \* "loop", "rendered", "warned" or "crashed"
  log_lines,           \* the lines of the processing log shown after the loop
  result_df            \* the output matrix once phase = "rendered"

vars == <<variant, uploaded_files, i, results, valid_data, processed_projects,
          phase, log_lines, result_df>>

Batches == UNION { [1..n -> Files] : n \in 1..MaxFiles }

Init ==
  /\ variant \in {"functions", "classes"}
  /\ uploaded_files \in Batches
  /\ i = 0
  /\ results = <<>>
  /\ valid_data = <<>>
  /\ processed_projects = {}
  /\ phase = "loop"
  /\ log_lines = <<>>
  /\ result_df = NoMatrix

\* Faulty variant: the table of every file is accumulated, admitted or not.
LoopStep_AppendsEveryTable(out) ==
  /\ results' = Append(results, out.result)
  /\ valid_data' = Append(valid_data, out.result.data)
  /\ processed_projects' = out.processed_projects
  /\ i' = i + 1
  /\ UNCHANGED <<variant, uploaded_files, phase, log_lines, result_df>>

\* Faulty variant: the identifier of an admitted file is not kept.
LoopStep_SeenSetNotUpdated(out) ==
  /\ results' = Append(results, out.result)
  /\ valid_data' = IF out.result.success
                   THEN Append(valid_data, out.result.data) ELSE valid_data
  /\ processed_projects' = processed_projects
  /\ i' = i + 1
  /\ UNCHANGED <<variant, uploaded_files, phase, log_lines, result_df>>

\* Faulty variant: the log record appended only for an admitted file.
LoopStep_LogOnlyAdmitted(out) ==
  /\ results' = IF out.result.success THEN Append(results, out.result) ELSE results
  /\ valid_data' = IF out.result.success
                   THEN Append(valid_data, out.result.data) ELSE valid_data
  /\ processed_projects' = out.processed_projects
  /\ i' = i + 1
  /\ UNCHANGED <<variant, uploaded_files, phase, log_lines, result_df>>

\* One iteration of the for loop, given what processing the file returned.
LoopStep(out) ==
  /\ results' = Append(results, out.result)
  /\ valid_data' = IF out.result.success
                   THEN Append(valid_data, out.result.data) ELSE valid_data
  /\ processed_projects' = out.processed_projects
  /\ i' = i + 1
  /\ UNCHANGED <<variant, uploaded_files, phase, log_lines, result_df>>

ProcessUploadedFile ==
  /\ variant = "functions" /\ phase = "loop" /\ i < Len(uploaded_files)
  /\ LET out == process_uploaded_file(uploaded_files[i + 1], processed_projects)
     IN  LoopStep(out)

ProcessFile ==
  /\ variant = "classes" /\ phase = "loop" /\ i < Len(uploaded_files)
  /\ LET out == process_file(uploaded_files[i + 1], processed_projects)
     IN  LoopStep(out)

\* After the loop, with at least one admitted file: show the log, then
\* concatenate and aggregate.  An exception raised by the aggregation is not
\* caught: the run crashes.
Finish(out) ==
  /\ log_lines' = render_processing_log(results)
  /\ phase' = IF out.raised THEN "crashed" ELSE "rendered"
  /\ result_df' = out.matrix
  /\ UNCHANGED <<variant, uploaded_files, i, results, valid_data, processed_projects>>

\* Faulty variant: the aggregation entered whether or not a file was admitted.
AggregateHours_WithoutValidData ==
  /\ variant = "functions" /\ phase = "loop" /\ i = Len(uploaded_files)
  /\ LET out == Aggregate_hours_by_bewaking(pd_concat(valid_data))
     IN  Finish(out)

AggregateHours ==
  /\ variant = "functions" /\ phase = "loop" /\ i = Len(uploaded_files)
  /\ valid_data # <<>>
  /\ LET out == Aggregate_hours_by_bewaking(pd_concat(valid_data))
     IN  Finish(out)

Transform ==
  /\ variant = "classes" /\ phase = "loop" /\ i = Len(uploaded_files)
  /\ valid_data # <<>>
  /\ LET out == transform(pd_concat(valid_data))
     IN  Finish(out)

\* After the loop, with no admitted file: show the log, then a warning; no
\* aggregation.
NoValidFiles ==
  /\ phase = "loop" /\ i = Len(uploaded_files)
  /\ valid_data = <<>>
  /\ log_lines' = render_processing_log(results)
  /\ phase' = "warned"
  /\ UNCHANGED <<variant, uploaded_files, i, results, valid_data, processed_projects,
                 result_df>>

Next ==
  \/ ProcessUploadedFile
  \/ ProcessFile
  \/ AggregateHours
  \/ Transform
  \/ NoValidFiles

Spec == Init /\ [][Next]_vars

----------------------------------------------------------------------------
\* Quantities the properties speak about

n == Len(uploaded_files)

\* The raw and clean project identifier the running implementation extracts.
RawOf(f) == IF variant = "functions" THEN extract_project_code_F(f)
            ELSE extract_project_code_C(f)
CleanOf(f) == RemovePrefixText(RawOf(f))

\* Positions of the log whose file was admitted.
AdmittedAt == { k \in 1..i : results[k].success }

\* The file parses to a non-empty table under the running implementation.
Readable(f) ==
  /\ IF variant = "functions" THEN f.fault = "none" ELSE f.fault # "parse"
  /\ ~Empty(pd_read_csv(f))

BadSchema(f) == Len(f.columns) < 2 \/ f.columns[2] # COL_DESCRIPTION

\* The tables of the admitted files, in log order.
RECURSIVE AdmittedData(_)
AdmittedData(k) ==
  IF k = 0 THEN <<>>
  ELSE IF results[k].success THEN Append(AdmittedData(k - 1), results[k].data)
  ELSE AdmittedData(k - 1)

\* The project identifier a table of valid_data carries on its rows.
TableProjects(data) ==
  { IF variant = "functions" THEN data.rows[r][COL_PROJECT_CODE].txt
    ELSE RemovePrefixText(data.rows[r][COL_PROJECT].txt) : r \in DOMAIN data.rows }

\* The aggregation of a combined table by the running implementation.
Aggregated(combined) ==
  IF variant = "functions" THEN Aggregate_hours_by_bewaking(combined)
  ELSE transform(combined)

\* The name of an output column for a monitoring description.
OutColumn(desc) == IF variant = "functions" THEN <<desc>> ELSE <<desc, "_uren">>

\* The whole run as a function of the batch: the files are processed in
\* order from an empty seen-set, then the admitted tables are aggregated.
RECURSIVE RunLoop(_, _)
RunLoop(files, k) ==
  IF k = 0 THEN [valid |-> <<>>, processed |-> {}]
  ELSE LET before == RunLoop(files, k - 1)
           out == IF variant = "functions"
                  THEN process_uploaded_file(files[k], before.processed)
                  ELSE process_file(files[k], before.processed)
       IN  [valid |-> IF out.result.success
                      THEN Append(before.valid, out.result.data) ELSE before.valid,
            processed |-> out.processed_projects]

RunOutput(files) ==
  LET valid == RunLoop(files, Len(files)).valid
  IN  IF valid = <<>> THEN Raised ELSE Aggregated(pd_concat(valid))

----------------------------------------------------------------------------
\* C1: of two files with the same clean project identifier, when the earlier
\* one is admitted the later one is rejected (success = false, as a duplicate
\* when it passes the earlier checks) and is not added to the accumulated
\* data; the earlier one stays admitted; the accumulated data are exactly the
\* admitted files' own tables in upload order (nothing reordered or merged).
C1_DuplicateRejected ==
  /\ \A j \in 1..i : \A k \in 1..i :
       (j < k /\ results[j].success
          /\ CleanOf(uploaded_files[j]) = CleanOf(uploaded_files[k]))
       => /\ ~results[k].success
          /\ (Readable(uploaded_files[k]) /\ ~BadSchema(uploaded_files[k])
                /\ StartsWithPrefix(RawOf(uploaded_files[k])))
             => results[k].message = MsgDuplicate(CleanOf(uploaded_files[k]))
  /\ valid_data = AdmittedData(i)
  /\ \A k \in AdmittedAt :
       /\ Len(results[k].data.rows) = Len(uploaded_files[k].body)
       /\ TableProjects(results[k].data) = {CleanOf(uploaded_files[k])}

C1_Witness ==
  /\ i = 2 /\ results[1].success /\ ~results[2].success
  /\ CleanOf(uploaded_files[1]) = CleanOf(uploaded_files[2])
  /\ uploaded_files[1] # uploaded_files[2]
  /\ results[2].message = MsgDuplicate(CleanOf(uploaded_files[2]))
  /\ Len(valid_data) = 1

----------------------------------------------------------------------------
\* C2: two files with the same project identifier, the first admitted: the
\* output matrix has a row for that project, and every cell of the row is the
\* value the first file alone gives.
C2_OneRowFromFirstFile ==
  phase = "rendered" =>
    \A j \in 1..n : \A k \in 1..n :
      (j < k /\ results[j].success
         /\ CleanOf(uploaded_files[j]) = CleanOf(uploaded_files[k]))
      => LET p == CleanOf(uploaded_files[j])
             alone == RunOutput(<<uploaded_files[j]>>).matrix
         IN  /\ p \in result_df.index
             /\ \A c \in result_df.columns :
                  result_df.cell[<<p, c>>] =
                    IF p \in alone.index /\ c \in alone.columns
                    THEN alone.cell[<<p, c>>] ELSE 0

----------------------------------------------------------------------------
\* The effect a rejection has on the state of the run.
RejectedStep ==
  /\ ~results'[i'].success
  /\ valid_data' = valid_data
  /\ processed_projects' = processed_projects

\* C3: a file whose table has fewer than two columns, or whose second column
\* is not named "Omschrijving", is rejected: success = false, nothing added to
\* the accumulated data, the set of processed projects unchanged.
C3_BadSchemaRejected ==
  [][(i' = i + 1 /\ BadSchema(uploaded_files[i + 1])) => RejectedStep]_vars

C3_Witness ==
  /\ i = 2 /\ results[1].success /\ ~results[2].success
  /\ BadSchema(uploaded_files[2])
  /\ uploaded_files[2].fault = "none" /\ uploaded_files[2].body # <<>>
  /\ StartsWithPrefix(RawOf(uploaded_files[2]))
  /\ Len(valid_data) = 1 /\ Cardinality(processed_projects) = 1

----------------------------------------------------------------------------
\* C4: a file whose raw header field does not start with the prefix
\* "SPECIFICATIE UREN van project: " is rejected: success = false, nothing
\* added to the accumulated data, the set of processed projects unchanged.
C4_MissingPrefixRejected ==
  [][(i' = i + 1 /\ ~StartsWithPrefix(RawOf(uploaded_files[i + 1]))) => RejectedStep]_vars

----------------------------------------------------------------------------
\* The rows the aggregation receives, read directly off the combined table.

\* The sum of the values of a function with a finite domain.
RECURSIVE SumFun(_)
SumFun(f) ==
  IF DOMAIN f = {} THEN 0
  ELSE LET x == CHOOSE y \in DOMAIN f : TRUE
       IN  f[x] + SumFun([y \in DOMAIN f \ {x} |-> f[y]])

SumOver(S, F(_)) == SumFun([x \in S |-> F(x)])

Combined == pd_concat(valid_data)

RowProject(row) ==
  IF variant = "functions" THEN row[COL_PROJECT_CODE].txt
  ELSE RemovePrefixText(row[COL_PROJECT].txt)

\* The specification code of a row: the first column of the uploaded table.
RowSpec(row) ==
  IF variant = "functions" THEN row[Combined.columns[2]] ELSE row[Combined.columns[1]]

\* The translation entries of a specification code that carry a monitoring code.
CodedEntries(cell) ==
  { k \in DOMAIN TRANSLATION_TABLE :
      /\ cell = Txt(<<TRANSLATION_TABLE[k].specificatiecode>>)
      /\ TRANSLATION_TABLE[k].bewakingscode # None }

\* The numeric hours of a row: its cell in the hours column, zero when that
\* cell is no number.
RowHours(row) ==
  LET k == FirstIndex(Combined.columns, LAMBDA c : Contains(c, "Uren"))
  IN  fillna0(to_numeric(row[Combined.columns[k]]))

----------------------------------------------------------------------------
\* The combined table without the rows whose specification code has no
\* translation entry or only the entry without a monitoring code.
WithoutUncoded(combined) ==
  [columns |-> combined.columns,
   rows |-> SelectSeq(combined.rows, LAMBDA row : CodedEntries(RowSpec(row)) # {})]

\* C6: rows whose specification code has no translation entry, or whose entry
\* has no monitoring code, contribute nothing: aggregating the combined data
\* without them gives the very output matrix of the run.
C6_UncodedRowsContributeNothing ==
  phase = "rendered" =>
    Aggregated(WithoutUncoded(Combined)) = [raised |-> FALSE, matrix |-> result_df]

C6_Witness ==
  /\ phase = "rendered" /\ result_df.index # {}
  /\ \E r \in DOMAIN Combined.rows : RowSpec(Combined.rows[r]) = Txt(<<"110GLZ">>)
  /\ \E r \in DOMAIN Combined.rows : RowSpec(Combined.rows[r]) = Txt(<<"999XXX">>)
  /\ \E r \in DOMAIN Combined.rows : CodedEntries(RowSpec(Combined.rows[r])) # {}

----------------------------------------------------------------------------
\* C7: when every file of the batch is admitted (valid files, pairwise
\* distinct project identifiers), every permutation of the upload order gives
\* the same outcome: the same output matrix, or a failed aggregation alike.
C7_OrderIndependent ==
  (phase \in {"rendered", "crashed"} /\ \A k \in 1..n : results[k].success) =>
    \A perm \in Permutations(1..n) :
      RunOutput([k \in 1..n |-> uploaded_files[perm[k]]])
        = [raised |-> (phase = "crashed"), matrix |-> result_df]

----------------------------------------------------------------------------
\* C8: the project codes of the rows of the output matrix are exactly the
\* clean project identifiers admitted in the run.
C8_OneRowPerAdmittedProject ==
  phase = "rendered" =>
    result_df.index = { CleanOf(uploaded_files[k]) : k \in AdmittedAt }

----------------------------------------------------------------------------
\* The joined data the aggregation filters, groups and pivots.
Joined ==
  pd_merge(IF variant = "functions" THEN Combined ELSE transform_prepare(Combined))

\* The rows of a filtered joined table that belong to a (project, description) pair.
PairRows(rows, p, d) ==
  { r \in DOMAIN rows :
      /\ rows[r][COL_PROJECT_CODE] = Txt(p)
      /\ rows[r][COL_MONITORING_DESC] = Txt(<<d>>) }

\* C9: every cell of the output matrix (project row, monitoring-description
\* column) is a defined number: the summed hours of the filtered joined rows
\* of that pair when there are any, zero when there are none; and every pair
\* that occurs in the filtered joined data has its row and its column.
C9_PivotComplete ==
  phase = "rendered" =>
    LET joined == Joined
        rows == filter_with_code(joined).rows
        hours_col == find_hours_column(joined)
    IN  /\ \A r \in DOMAIN rows :
             /\ rows[r][COL_PROJECT_CODE].txt \in result_df.index
             /\ OutColumn(rows[r][COL_MONITORING_DESC].txt[1]) \in result_df.columns
        /\ DOMAIN result_df.cell = result_df.index \X result_df.columns
        /\ \A p \in result_df.index : \A c \in result_df.columns :
             /\ result_df.cell[<<p, c>>] \in Nat
             /\ result_df.cell[<<p, c>>] =
                  SumOver(PairRows(rows, p, c[1]),
                          LAMBDA r : fillna0(to_numeric(rows[r][hours_col])))

C9_Witness ==
  /\ phase = "rendered"
  /\ LET rows == filter_with_code(Joined).rows
     IN  \E p \in result_df.index : \E c \in result_df.columns : \E d \in result_df.columns :
           /\ PairRows(rows, p, c[1]) = {} /\ result_df.cell[<<p, c>>] = 0
           /\ Cardinality(PairRows(rows, p, d[1])) = 2 /\ result_df.cell[<<p, d>>] = 55

----------------------------------------------------------------------------
\* The log matches the files handled so far, and the loop is left only with
\* all n files logged.
LogMatchesFiles ==
  /\ Len(results) = i /\ i <= n
  /\ \A k \in 1..i : results[k].filename = uploaded_files[k].name
  /\ phase # "loop" => i = n

\* A step taken before the last file is handled is the handling of the next
\* file, whatever the outcome of the files before it: it appends that file's
\* record and stays in the loop; the log never changes otherwise.
NextFileStep ==
  /\ (phase = "loop" /\ i < n) =>
       /\ phase' = "loop" /\ i' = i + 1
       /\ Len(results') = i + 1 /\ SubSeq(results', 1, i) = results
       /\ results'[i + 1].filename = uploaded_files[i + 1].name
  /\ ~(phase = "loop" /\ i < n) => results' = results

\* C10: the loop handles the files in upload order and makes exactly one log
\* record per file, the i-th carrying the i-th file's name; a failure of a
\* file (an exception inside its processing included) is followed by the
\* handling of the next file; the loop ends with exactly n records.
C10_OneRecordPerFileInOrder == []LogMatchesFiles /\ [][NextFileStep]_vars

C10_Witness ==
  /\ phase # "loop" /\ n = 2 /\ Len(results) = 2
  /\ results[1].message = MsgException /\ ~results[1].success
  /\ results[2].success
  /\ uploaded_files[1].name # uploaded_files[2].name

----------------------------------------------------------------------------
\* The k-th file was rejected as a duplicate project: it passed the checks
\* that come before the duplicate test, and an earlier admitted file has its
\* clean identifier.
RejectedAsDuplicate(k) ==
  /\ ~results[k].success
  /\ Readable(uploaded_files[k]) /\ ~BadSchema(uploaded_files[k])
  /\ variant = "functions" => StartsWithPrefix(RawOf(uploaded_files[k]))
  /\ \E j \in 1..(k - 1) :
       results[j].success /\ CleanOf(uploaded_files[j]) = CleanOf(uploaded_files[k])

\* C11: in the log shown after the loop, the record of an admitted file is
\* classified [OK], the record of a file rejected as a duplicate project
\* [WAARSCHUWING], and the record of a file rejected for any other reason
\* [ERROR], whatever text the file's header or column names carry.
C11_WarningOnlyForDuplicate ==
  phase # "loop" =>
    /\ Len(log_lines) = n
    /\ \A k \in 1..n :
         log_lines[k].status =
           IF results[k].success THEN "[OK]"
           ELSE IF RejectedAsDuplicate(k) THEN "[WAARSCHUWING]"
           ELSE "[ERROR]"

----------------------------------------------------------------------------
\* No column of the table has a name containing 'Uren'.
NoHoursColumn(data) == \A c \in Range(data.columns) : ~Contains(c, "Uren")

\* C12: when at least one file is admitted and no column of the combined
\* data, concatenated or joined, has a name containing "Uren", the run ends
\* with the aggregation failed: no output matrix exists and none is rendered.
C12_NoHoursColumnFailsRun ==
  (phase # "loop" /\ valid_data # <<>>
     /\ NoHoursColumn(Combined) /\ NoHoursColumn(Joined))
  => (phase = "crashed" /\ result_df = NoMatrix)

C12_Witness ==
  /\ phase = "crashed" /\ result_df = NoMatrix
  /\ n = 2 /\ Len(valid_data) = 1 /\ Len(valid_data[1].rows) = 1
  /\ NoHoursColumn(Combined) /\ NoHoursColumn(Joined)

----------------------------------------------------------------------------
\* A run that has ended with no admitted file ended with the warning that no
\* valid file was found, without output matrix.
NoAdmittedFileNoMatrix ==
  (phase # "loop" /\ AdmittedAt = {}) => (phase = "warned" /\ result_df = NoMatrix)

\* The step that enters the aggregation (it ends rendered or crashed) is taken
\* after the whole batch was processed and with at least one admitted file;
\* after the whole batch with no admitted file, the step taken is the warning.
AggregationEntry ==
  /\ phase' \in {"rendered", "crashed"} =>
       (i = n /\ i' = n /\ AdmittedAt # {} /\ valid_data # <<>>)
  /\ (i = n /\ AdmittedAt = {}) => (phase' = "warned" /\ result_df' = NoMatrix)

\* C13: when no file of the batch is admitted the aggregation is never
\* entered and the run ends reporting failure; the aggregation is entered
\* only after all files have been processed and at least one was admitted.
C13_AggregationOnlyWithAdmittedFile ==
  []NoAdmittedFileNoMatrix /\ [][AggregationEntry]_vars

C13_Witness ==
  /\ phase = "warned" /\ n = 2 /\ Len(results) = 2 /\ AdmittedAt = {}
  /\ results[1].message # results[2].message
  /\ result_df = NoMatrix

----------------------------------------------------------------------------
\* The hours a raw field of an uploaded file stands for, under the file's own
\* decimal-comma convention: its value when it is a number, zero otherwise.
FieldHours(t) == IF t \in DOMAIN DecimalCommaValue THEN DecimalCommaValue[t] ELSE 0

\* The hours field of a data row of an uploaded file ("" without hours column).
HoursField(f, r) ==
  LET h == FirstIndex(f.columns, LAMBDA c : Contains(c, "Uren"))
  IN  IF h = 0 THEN "" ELSE f.body[r][h]

\* The monitoring description a specification code translates to, None when
\* it has no entry or its entry has no monitoring code.
DescriptionOf(code) ==
  LET coded == CodedEntries(Txt(<<code>>))
  IN  IF coded = {} THEN None
      ELSE TRANSLATION_TABLE[CHOOSE k \in coded : TRUE].bewakingomschrijving

\* The data rows (file position, row) of the admitted files that belong to a
\* project and a monitoring description.
AdmittedRows(p, d) ==
  { kr \in UNION { {k} \X DOMAIN uploaded_files[k].body : k \in AdmittedAt } :
      /\ CleanOf(uploaded_files[kr[1]]) = p
      /\ DescriptionOf(uploaded_files[kr[1]].body[kr[2]][1]) = d }

HoursColumns(data) == { c \in Range(data.columns) : Contains(c, "Uren") }

\* C14: with one hours column in the combined data, the run completes, and
\* every cell of the output matrix is the sum of the hours of the admitted
\* rows of its project and monitoring description, a row whose hours field is
\* not a number or is missing counting 0 and every other row its own hours.
C14_BadHoursCellCountsZero ==
  (phase # "loop" /\ valid_data # <<>> /\ Cardinality(HoursColumns(Combined)) = 1)
  => /\ phase = "rendered"
     /\ \A p \in result_df.index : \A c \in result_df.columns :
          result_df.cell[<<p, c>>] =
            SumOver(AdmittedRows(p, c[1]),
                    LAMBDA kr : FieldHours(HoursField(uploaded_files[kr[1]], kr[2])))

----------------------------------------------------------------------------
\* C15: no file is admitted with an empty clean project identifier: the seen
\* set never holds the empty text, and the identifier attached to the rows of
\* an admitted file is not empty.
C15_AdmittedIdentifierNotEmpty ==
  /\ <<>> \notin processed_projects
  /\ \A k \in AdmittedAt :
       /\ CleanOf(uploaded_files[k]) # <<>>
       /\ <<>> \notin TableProjects(results[k].data)

----------------------------------------------------------------------------
\* The monitoring descriptions of the translation table.
Descriptions ==
  { TRANSLATION_TABLE[k].bewakingomschrijving : k \in DOMAIN TRANSLATION_TABLE } \ {None}

\* C16: every monitoring-description column of the output matrix is named by
\* a monitoring description followed by the suffix "_uren"; the project codes
\* are kept apart from these columns (the index) and carry no suffix.
C16_ColumnsCarryUrenSuffix ==
  phase = "rendered" =>
    /\ \A c \in result_df.columns : \E d \in Descriptions : c = <<d, "_uren">>
    /\ \A p \in result_df.index : ~Contains(p, "_uren")

----------------------------------------------------------------------------
\* C17: the raw project identifier of an admitted file is the first
\* semicolon-delimited field of the file's first line (the whole line without
\* a semicolon); no semicolon and nothing after it is part of the raw
\* identifier, of the clean identifiers in the seen set, or of the identifier
\* attached to the rows.
C17_RawIsFirstField ==
  /\ \A k \in AdmittedAt :
       /\ results[k].project_code = BeforeSemicolon(uploaded_files[k].line1)
       /\ \A p \in TableProjects(results[k].data) : ~Contains(p, ";")
  /\ \A p \in processed_projects : ~Contains(p, ";")

----------------------------------------------------------------------------
\* Position in the candidate list of the first encoding under which the file
\* parses, 0 when it parses under none.
FirstParsing(f) == FirstIndex(ENCODINGS, LAMBDA e : ~ReadRaises(f, e))

\* What the reader of the running implementation returns for a file.
ReadOutcome(f) ==
  IF variant = "functions"
  THEN LET rd == read_csv_file(f)
       IN  [found |-> ~rd.raised, data |-> rd.data, project_code |-> rd.project_code,
            encoding |-> IF rd.raised THEN None ELSE ENCODING]
  ELSE read_file(f)

\* C18: for every processed file the reader returns the table, the header
\* and the encoding of the first candidate of cp1252, latin-1, iso-8859-1,
\* utf-8 under which the file parses, and finds nothing only when every
\* candidate fails; a file that parses under some candidate to a non-empty
\* table is not logged as unreadable or as an exception.
C18_FirstParsingEncodingUsed ==
  \A k \in 1..i :
    LET f == uploaded_files[k]
        first == FirstParsing(f)
        rd == ReadOutcome(f)
    IN  /\ rd.found <=> first # 0
        /\ rd.found => /\ rd.encoding = ENCODINGS[first]
                       /\ rd.data = pd_read_csv(f)
                       /\ rd.project_code = RawOf(f)
        /\ (first # 0 /\ ~Empty(pd_read_csv(f)))
             => results[k].message \notin {MsgUnreadable, MsgException}
        /\ first = 0 => ~results[k].success

----------------------------------------------------------------------------
\* The file parses under no candidate encoding, or parses to an empty table.
Unreadable(f) == FirstParsing(f) = 0 \/ Empty(pd_read_csv(f))

\* C19: a file that parses under no candidate encoding, or whose table is
\* empty, is rejected with the unreadable/empty-file message, not with the
\* generic exception message; nothing of it is added to the accumulated data
\* or the seen set, and the loop goes on.
C19_UnreadableFileRejected ==
  [][(i' = i + 1 /\ Unreadable(uploaded_files[i + 1]))
       => /\ RejectedStep
          /\ results'[i'].message = MsgUnreadable
          /\ phase' = "loop"]_vars

----------------------------------------------------------------------------
\* C20: an output matrix is produced only when exactly one column of the
\* combined data has a name containing "Uren"; with two or more such columns
\* the run fails instead.
C20_TwoHoursColumnsFail ==
  /\ phase = "rendered" =>
       (Cardinality(HoursColumns(Combined)) = 1 /\ Cardinality(HoursColumns(Joined)) = 1)
  /\ (phase # "loop" /\ valid_data # <<>> /\ Cardinality(HoursColumns(Combined)) >= 2)
       => (phase = "crashed" /\ result_df = NoMatrix)

----------------------------------------------------------------------------
\* The table the running implementation joins with the translation table.
JoinInput == IF variant = "functions" THEN Combined ELSE transform_prepare(Combined)

\* The name a column of the join's input has in the joined table.
JoinedName(c) ==
  IF c \in {COL_DESCRIPTION, COL_MONITORING_CODE, COL_MONITORING_DESC}
  THEN c \o <<"_x">> ELSE c

\* Specification codes are unique within the translation table.
UniqueSpecificationCodes ==
  \A j \in DOMAIN TRANSLATION_TABLE : \A k \in DOMAIN TRANSLATION_TABLE :
    TRANSLATION_TABLE[j].specificatiecode = TRANSLATION_TABLE[k].specificatiecode => j = k

\* C21: once the aggregation has been entered, the join has produced exactly
\* one joined row per input row, in input order, with every original field
\* unchanged; a row whose specification code has no coded entry is kept with
\* monitoring code absent (and the description too), and the later filter
\* removes exactly these rows.
C21_JoinPreservesRows ==
  phase \in {"rendered", "crashed"} =>
    LET input == JoinInput
        joined == Joined
    IN  /\ UniqueSpecificationCodes
        /\ ~merge_raises(input)
        /\ Len(joined.rows) = Len(input.rows)
        /\ \A r \in DOMAIN input.rows :
             /\ \A c \in Range(input.columns) :
                  joined.rows[r][JoinedName(c)] = input.rows[r][c]
             /\ CodedEntries(input.rows[r][COL_SPECIFICATION]) = {}
                  => /\ joined.rows[r][COL_MONITORING_CODE] = NaN
                     /\ joined.rows[r][COL_MONITORING_DESC] = NaN
        /\ filter_with_code(joined).rows =
             SelectSeq(joined.rows,
                       LAMBDA row : CodedEntries(row[COL_SPECIFICATION]) # {})

----------------------------------------------------------------------------
\* The seen set is the set of clean identifiers of the admitted files, one
\* accumulated table per identifier, no identifier admitted twice.
SeenSetMatchesAdmitted ==
  /\ processed_projects = { CleanOf(uploaded_files[k]) : k \in AdmittedAt }
  /\ Len(valid_data) = Cardinality(processed_projects)
  /\ Cardinality(AdmittedAt) = Cardinality(processed_projects)
  /\ \A j \in AdmittedAt : \A k \in AdmittedAt :
       CleanOf(uploaded_files[j]) = CleanOf(uploaded_files[k]) => j = k
  /\ i = 0 => processed_projects = {}

\* The seen set only grows, by at most the identifier of the file processed.
SeenSetGrows ==
  /\ processed_projects \subseteq processed_projects'
  /\ Cardinality(processed_projects') <= Cardinality(processed_projects) + 1

\* C22: after any prefix of the upload sequence, the set of processed
\* projects is exactly the set of clean identifiers of the files logged with
\* success = true, the number of accumulated tables is the size of that set,
\* no two admitted files share a clean identifier; the set starts empty and
\* only grows during the run.
C22_SeenSetInvariant == []SeenSetMatchesAdmitted /\ [][SeenSetGrows]_vars

C22_Witness ==
  /\ i = 2 /\ phase = "loop"
  /\ Cardinality(processed_projects) = 1 /\ Len(valid_data) = 1
  /\ ~results[1].success /\ results[2].success
  /\ CleanOf(uploaded_files[1]) = CleanOf(uploaded_files[2])

----------------------------------------------------------------------------
\* The files among the first k of the batch that were admitted, in order.
RECURSIVE AdmittedFiles(_)
AdmittedFiles(k) ==
  IF k = 0 THEN <<>>
  ELSE IF results[k].success THEN Append(AdmittedFiles(k - 1), uploaded_files[k])
  ELSE AdmittedFiles(k - 1)

\* The run so far is the run of the batch without its rejected files: the
\* same accumulated data, the same seen set and, once aggregated, the same
\* outcome.
SameAsWithoutRejected ==
  LET kept == AdmittedFiles(i)
      alone == RunLoop(kept, Len(kept))
  IN  /\ alone.valid = valid_data
      /\ alone.processed = processed_projects
      /\ phase \in {"rendered", "crashed"} =>
           RunOutput(kept) = [raised |-> (phase = "crashed"), matrix |-> result_df]

\* Processing a file that is rejected changes neither the seen set nor the
\* accumulated data.
RejectionLeavesStateAlone ==
  (i' = i + 1 /\ ~results'[i'].success)
    => (valid_data' = valid_data /\ processed_projects' = processed_projects)

\* C23: a rejected file has no effect on the rest of the run: its processing
\* leaves the seen set and the accumulated data unchanged, later files are
\* admitted as if it had not been uploaded, and the output of the batch is
\* the output of the batch with all rejected files removed.
C23_RejectedFileHasNoEffect ==
  []SameAsWithoutRejected /\ [][RejectionLeavesStateAlone]_vars

C23_Witness ==
  /\ phase = "rendered" /\ n = 2
  /\ ~results[1].success /\ results[2].success
  /\ results[1].message # MsgDuplicate(CleanOf(uploaded_files[1]))
  /\ CleanOf(uploaded_files[1]) = CleanOf(uploaded_files[2])
  /\ StartsWithPrefix(RawOf(uploaded_files[1]))
  /\ result_df.index = {CleanOf(uploaded_files[2])}

----------------------------------------------------------------------------
\* The clean identifiers admitted before the k-th file.
SeenBefore(k) == { CleanOf(uploaded_files[j]) : j \in { m \in AdmittedAt : m < k } }

\* C24: the log record of every file reports the first check that fails, in
\* the order unreadable/empty table, schema, prefix, duplicate: an unreadable
\* file gets no format, prefix or duplicate message; a readable file with a
\* bad schema gets the format message whatever its header; a readable file of
\* good schema without the prefix gets the prefix message; only a file that
\* passed these three is reported as duplicate; the others are admitted.
C24_FirstFailingCheckReported ==
  \A k \in 1..i :
    LET f == uploaded_files[k]
        r == results[k]
    IN  IF ~Readable(f)
        THEN ~r.success /\ r.message \in {MsgUnreadable, MsgException}
        ELSE IF BadSchema(f)
        THEN ~r.success /\ r.message = MsgFormat(pd_read_csv(f))
        ELSE IF ~StartsWithPrefix(RawOf(f))
        THEN ~r.success /\ r.message = MsgPrefix(RawOf(f))
        ELSE IF CleanOf(f) \in SeenBefore(k)
        THEN ~r.success /\ r.message = MsgDuplicate(CleanOf(f))
        ELSE r.success

----------------------------------------------------------------------------
\* Monitoring code and monitoring description determine each other in the
\* translation table, and one is absent exactly when the other is.
CodeAndDescriptionCorrespond ==
  \A j \in DOMAIN TRANSLATION_TABLE : \A k \in DOMAIN TRANSLATION_TABLE :
    LET a == TRANSLATION_TABLE[j]
        b == TRANSLATION_TABLE[k]
    IN  /\ (a.bewakingscode = None) <=> (a.bewakingomschrijving = None)
        /\ (a.bewakingscode = b.bewakingscode)
             <=> (a.bewakingomschrijving = b.bewakingomschrijving)

\* The monitoring description of a monitoring code.
DescriptionOfCode(code) ==
  TRANSLATION_TABLE[CHOOSE k \in DOMAIN TRANSLATION_TABLE :
                      TRANSLATION_TABLE[k].bewakingscode = code].bewakingomschrijving

\* The matrix obtained from the joined data of the run by grouping and
\* pivoting by monitoring code.
MatrixByCode ==
  LET joined == Joined
  IN  pivot_table(groupby_sum_by_code(filter_with_code(joined), find_hours_column(joined)))

\* C25: monitoring code and description determine each other in the table,
\* and the output matrix (grouped and pivoted by description) has the same
\* rows, the same number of columns and, column for column through the
\* table's correspondence, the same cell values as the matrix grouped and
\* pivoted by monitoring code.
C25_DescriptionAndCodeGroupingAgree ==
  /\ CodeAndDescriptionCorrespond
  /\ phase = "rendered" =>
       LET by_code == MatrixByCode
       IN  /\ by_code.index = result_df.index
           /\ Cardinality(by_code.columns) = Cardinality(result_df.columns)
           /\ \A c \in by_code.columns :
                /\ OutColumn(DescriptionOfCode(c[1])) \in result_df.columns
                /\ \A p \in by_code.index :
                     by_code.cell[<<p, c>>] =
                       result_df.cell[<<p, OutColumn(DescriptionOfCode(c[1]))>>]

C25_Witness ==
  /\ phase = "rendered" /\ Len(valid_data) = 2
  /\ Cardinality(result_df.index) = 2
  /\ Cardinality(MatrixByCode.columns) >= 2
  /\ \E p \in MatrixByCode.index : MatrixByCode.cell[<<p, <<"K601">> >>] = 55

----------------------------------------------------------------------------
\* C26: for every processed file the multi-encoding resolver returns cp1252
\* or latin-1 when it returns a table, never iso-8859-1 or utf-8; it finds
\* nothing only for a file that fails to parse structurally, never for a
\* file's undecodable bytes alone, and the class implementation does not log
\* a file with undecodable bytes and a non-empty table as unreadable.
C26_OnlyFirstTwoEncodingsSelected ==
  \A k \in 1..i :
    LET f == uploaded_files[k]
        rd == read_file(f)
    IN  /\ rd.found => rd.encoding \in {"cp1252", "latin-1"}
        /\ ~rd.found => f.fault = "parse"
        /\ f.fault = "decode" => (rd.found /\ rd.encoding = "latin-1")
        /\ (variant = "classes" /\ f.fault = "decode" /\ ~Empty(pd_read_csv(f)))
             => results[k].message \notin {MsgUnreadable, MsgException}

C26_Witness ==
  /\ variant = "classes" /\ i = 2
  /\ uploaded_files[1].fault = "decode" /\ results[1].success
  /\ read_file(uploaded_files[1]).encoding = "latin-1"
  /\ uploaded_files[2].fault = "parse" /\ results[2].message = MsgUnreadable
  /\ ~read_file(uploaded_files[2]).found

====
